---- MODULE Spec2Model ----
(***************************************************************************)
(* Model of the <dash-tablist> custom element (class TabList) of           *)
(* src/elements/dash-tab-panel/dash-tab-panel.js.                          *)
(*                                                                         *)
(* The state is the DOM subtree under the element (child lists and the     *)
(* attributes the element reads and writes), the registered listeners, the *)
(* focused element, and a record of the callback that ran last.            *)
(* Every callback runs to completion (single-threaded event loop), so each *)
(* callback is one action; a callback that throws keeps the mutations it   *)
(* made before the throw.                                                  *)
(***************************************************************************)
EXTENDS Integers, Sequences, FiniteSets, TLC

\* Number of tab/panel pairs in the host markup.
NTabs == 3

\* const KEYCODE = {...}
KEYCODE_DOWN == 40
KEYCODE_LEFT == 37
KEYCODE_RIGHT == 39
KEYCODE_UP == 38
KEYCODE_HOME == 36
KEYCODE_END == 35
\* A key code that is none of the six in KEYCODE (the letter "A").
KEYCODE_OTHER == 65

KeyCodes ==
  {KEYCODE_DOWN, KEYCODE_LEFT, KEYCODE_RIGHT, KEYCODE_UP, KEYCODE_HOME,
   KEYCODE_END, KEYCODE_OTHER}

RecognizedKeys == KeyCodes \ {KEYCODE_OTHER}

----------------------------------------------------------------------------
\* DOM nodes.  Host is the <dash-tablist> element itself.

Host == <<"host">>
Tab(i) == <<"tab", i>>
Panel(i) == <<"panel", i>>
\* A <div> without a role (a wrapper / empty space).
Wrap == <<"div">>
\* One more element (content inside the first panel); its role and
\* aria-controls are chosen by the markup.
Extra == <<"span">>
\* JavaScript's undefined, as the result of Array.prototype.find.
Undefined == <<"undefined">>

TabIdx == 1..NTabs
TabNodes == {Tab(i) : i \in TabIdx}
PanelNodes == {Panel(i) : i \in TabIdx}
Elems == TabNodes \cup PanelNodes \cup {Wrap, Extra}
Nodes == {Host} \cup Elems

\* Attribute values.  getAttribute returns null for an absent attribute; the
\* id property of an element without id is the empty string.
Null == <<"null">>
\* getAttribute's null for the string-valued role, aria-selected, aria-hidden.
Absent == "absent"
EmptyStr == <<>>
TabId(i) == <<"t", i>>
PanelId(i) == <<"p", i>>
MissingId == <<"missing-id">>
NoFocus == <<"body">>

Range(s) == {s[i] : i \in 1..Len(s)}

----------------------------------------------------------------------------
VARIABLES
  kids,       \* kids[n]: the children of node n, in order
  attr,       \* attr[n]: role, id, aria-controls, aria-selected, tabIndex,
              \*          aria-hidden, aria-labelledby of node n
  listeners,  \* event types the host has a listener registered for
  connected,  \* the host is attached to the document
  focus,      \* the focused element
  setup,      \* how the connectedCallback of the current attachment ended
  lastOp      \* the callback that ran last, its input and its outcome

vars == <<kids, attr, listeners, connected, focus, setup, lastOp>>

----------------------------------------------------------------------------
\* Element.querySelectorAll: the descendants in document order (pre-order).

RECURSIVE DocOrder(_, _)
DocOrder(k, s) ==
  IF s = <<>> THEN <<>>
  ELSE <<Head(s)>> \o DocOrder(k, k[Head(s)]) \o DocOrder(k, Tail(s))

querySelectorAll(k, a, role) ==
  SelectSeq(DocOrder(k, k[Host]), LAMBDA e : a[e].role = role)

_allPanels(k, a) == querySelectorAll(k, a, "tabpanel")

\* _allTabs memoized: the tabs of the original markup, whatever the tree
\* holds now.
_allTabs_memoized(k, a) ==
  SelectSeq([i \in 1..NTabs |-> Tab(i)], LAMBDA e : a[e].role = "tab")

_allTabs(k, a) == querySelectorAll(k, a, "tab")

\* Array.prototype.find, given the elements that satisfy the test in array
\* order: the first of them, or undefined.
Find(hits) == IF hits = <<>> THEN Undefined ELSE hits[1]

IsSelected(a, tab) == a[tab].selected = "true"

\* tabs.findIndex(tab => tab.getAttribute('aria-selected') === 'true'),
\* 0-based, -1 when there is none.
FindIndex(a, tabs) ==
  IF \E i \in 1..Len(tabs) : IsSelected(a, tabs[i])
  THEN (CHOOSE i \in 1..Len(tabs) :
          /\ IsSelected(a, tabs[i])
          /\ \A j \in 1..(i - 1) : ~IsSelected(a, tabs[j])) - 1
  ELSE -1

\* JavaScript's % (the sign follows the dividend).
JsRem(x, n) == IF x >= 0 THEN x % n ELSE 0 - ((0 - x) % n)

\* tabs[idx] for a 0-based idx; undefined outside the array.
At(s, idx) == IF idx >= 0 /\ idx < Len(s) THEN s[idx + 1] ELSE Undefined

\* _panelForTab with the aria-controls lookup dropped: the first panel.
_panelForTab_first(k, a, tab) == At(_allPanels(k, a), 0)

_panelForTab(k, a, tab) ==
  LET panelId == a[tab].controls
  IN  Find(SelectSeq(_allPanels(k, a), LAMBDA panel : a[panel].id = panelId))

\* _prevTab without adding tabs.length before the modulus.
_prevTab_noWrap(k, a) ==
  LET tabs == _allTabs(k, a)
      newIdx == FindIndex(a, tabs) - 1
  IN  At(tabs, JsRem(newIdx, Len(tabs)))

_prevTab(k, a) ==
  LET tabs == _allTabs(k, a)
      newIdx == FindIndex(a, tabs) - 1
  IN  At(tabs, JsRem(newIdx + Len(tabs), Len(tabs)))

_nextTab(k, a) ==
  LET tabs == _allTabs(k, a)
      newIdx == FindIndex(a, tabs) + 1
  IN  At(tabs, JsRem(newIdx, Len(tabs)))

\* reset without the tabIndex write.
reset_keepsTabIndex(k, a) ==
  LET tabs == Range(_allTabs(k, a))
      panels == Range(_allPanels(k, a))
  IN  [n \in Nodes |->
         IF n \in tabs THEN [a[n] EXCEPT !.selected = "false"]
         ELSE IF n \in panels THEN [a[n] EXCEPT !.hidden = "true"]
         ELSE a[n]]

\* reset without the aria-selected write.
reset_keepsSelected(k, a) ==
  LET tabs == Range(_allTabs(k, a))
      panels == Range(_allPanels(k, a))
  IN  [n \in Nodes |->
         IF n \in tabs THEN [a[n] EXCEPT !.tabIndex = -1]
         ELSE IF n \in panels THEN [a[n] EXCEPT !.hidden = "true"]
         ELSE a[n]]

reset(k, a) ==
  LET tabs == Range(_allTabs(k, a))
      panels == Range(_allPanels(k, a))
      a1 == [n \in Nodes |->
               IF n \in tabs
               THEN [a[n] EXCEPT !.tabIndex = -1, !.selected = "false"]
               ELSE a[n]]
  IN  [n \in Nodes |->
         IF n \in panels THEN [a1[n] EXCEPT !.hidden = "true"] ELSE a1[n]]

\* The result of a call: the attributes and focus it leaves, and whether it
\* returned (ok) or threw.
_selectTab(k, a, f, newTab) ==
  LET a1 == reset(k, a)
      newPanel == IF newTab = Undefined THEN Undefined
                  ELSE _panelForTab(k, a1, newTab)
  IN  IF newTab = Undefined \/ newPanel = Undefined
      THEN [attr |-> a1, focus |-> f, ok |-> FALSE]
      ELSE LET a2 == [a1 EXCEPT ![newPanel].hidden = "false"]
               a3 == [a2 EXCEPT ![newTab].selected = "true",
                                 ![newTab].tabIndex = 0]
           IN  [attr |-> a3, focus |-> newTab, ok |-> TRUE]

\* appendChild inserting c as the first child instead of the last.
appendChild_prepend(k, c) ==
  [n \in Nodes |->
     LET rest == SelectSeq(k[n], LAMBDA x : x # c)
     IN  IF n = Host THEN <<c>> \o rest ELSE rest]

\* Node.appendChild on the host: c is moved to the last child position.
appendChild(k, c) ==
  [n \in Nodes |->
     LET rest == SelectSeq(k[n], LAMBDA x : x # c)
     IN  IF n = Host THEN Append(rest, c) ELSE rest]

RECURSIVE appendAll(_, _)
appendAll(k, s) ==
  IF s = <<>> THEN k ELSE appendAll(appendChild(k, Head(s)), Tail(s))

\* The labelling loop writing aria-labelledby on the tab itself instead of
\* on the panel it controls.
labelTabs_onTab(k, a, tabs) ==
  [attr |-> [n \in Nodes |->
               IF n \in Range(tabs) /\ a[n].id # EmptyStr
               THEN [a[n] EXCEPT !.labelledby = a[n].id] ELSE a[n]],
   ok |-> \A i \in 1..Len(tabs) :
            a[tabs[i]].id # EmptyStr /\ _panelForTab(k, a, tabs[i]) # Undefined]

\* The labelling loop of connectedCallback.  It throws at a tab without id
\* (panelId is not defined there) and at a tab with an id whose panel does
\* not exist (setAttribute of undefined); the labels set before stay.
RECURSIVE labelTabs(_, _, _)
labelTabs(k, a, tabs) ==
  IF tabs = <<>> THEN [attr |-> a, ok |-> TRUE]
  ELSE LET tab == Head(tabs)
           panel == _panelForTab(k, a, tab)
       IN  IF a[tab].id # EmptyStr /\ panel # Undefined
           THEN labelTabs(k, [a EXCEPT ![panel].labelledby = a[tab].id],
                          Tail(tabs))
           ELSE [attr |-> a, ok |-> FALSE]

\* connectedCallback that always starts on the first tab, whatever is marked.
connectedCallback_first(k, a, f) ==
  LET a1 == [a EXCEPT ![Host].role = "tablist"]
      tabs == _allTabs(k, a1)
      panels == _allPanels(k, a1)
  IN  IF Len(tabs) = 0
      THEN [kids |-> k, attr |-> a1, focus |-> f, result |-> "inert",
            newTab |-> Undefined]
      ELSE LET k1 == appendAll(appendAll(k, tabs), panels)
               lab == labelTabs(k1, a1, tabs)
               selectedTab == tabs[1]
               sel == _selectTab(k1, lab.attr, f, selectedTab)
           IN  IF ~lab.ok
               THEN [kids |-> k1, attr |-> lab.attr, focus |-> f,
                     result |-> "error", newTab |-> Undefined]
               ELSE [kids |-> k1, attr |-> sel.attr, focus |-> sel.focus,
                     result |-> IF sel.ok THEN "ok" ELSE "error",
                     newTab |-> selectedTab]

connectedCallback(k, a, f) ==
  LET a1 == [a EXCEPT ![Host].role = "tablist"]
      tabs == _allTabs(k, a1)
      panels == _allPanels(k, a1)
  IN  IF Len(tabs) = 0
      THEN [kids |-> k, attr |-> a1, focus |-> f, result |-> "inert",
            newTab |-> Undefined]
      ELSE LET k1 == appendAll(appendAll(k, tabs), panels)
               lab == labelTabs(k1, a1, tabs)
               marked == Find(SelectSeq(tabs, LAMBDA tab :
                                          IsSelected(lab.attr, tab)))
               selectedTab == IF marked # Undefined THEN marked ELSE tabs[1]
               sel == _selectTab(k1, lab.attr, f, selectedTab)
           IN  IF ~lab.ok
               THEN [kids |-> k1, attr |-> lab.attr, focus |-> f,
                     result |-> "error", newTab |-> Undefined]
               ELSE [kids |-> k1, attr |-> sel.attr, focus |-> sel.focus,
                     result |-> IF sel.ok THEN "ok" ELSE "error",
                     newTab |-> selectedTab]

\* _onKeyDown with the Home and End cases exchanged.
_onKeyDown_swapHomeEnd(k, a, f, target, keyCode, altKey) ==
  LET tabs == _allTabs(k, a)
      newTab == CASE keyCode \in {KEYCODE_LEFT, KEYCODE_UP} -> _prevTab(k, a)
                  [] keyCode \in {KEYCODE_RIGHT, KEYCODE_DOWN} -> _nextTab(k, a)
                  [] keyCode = KEYCODE_END -> At(tabs, 0)
                  [] keyCode = KEYCODE_HOME -> At(tabs, Len(tabs) - 1)
                  [] OTHER -> Undefined
      sel == _selectTab(k, a, f, newTab)
  IN  IF \/ a[target].role # "tab"
         \/ altKey
         \/ keyCode \notin RecognizedKeys
      THEN [attr |-> a, focus |-> f, result |-> "ignored",
            prevented |-> TRUE, newTab |-> Undefined]
      ELSE [attr |-> sel.attr, focus |-> sel.focus,
            result |-> IF sel.ok THEN "ok" ELSE "error",
            prevented |-> TRUE, newTab |-> newTab]

\* _onKeyDown without the altKey test.
_onKeyDown_noAlt(k, a, f, target, keyCode, altKey) ==
  LET tabs == _allTabs(k, a)
      newTab == CASE keyCode \in {KEYCODE_LEFT, KEYCODE_UP} -> _prevTab(k, a)
                  [] keyCode \in {KEYCODE_RIGHT, KEYCODE_DOWN} -> _nextTab(k, a)
                  [] keyCode = KEYCODE_HOME -> At(tabs, 0)
                  [] keyCode = KEYCODE_END -> At(tabs, Len(tabs) - 1)
                  [] OTHER -> Undefined
      sel == _selectTab(k, a, f, newTab)
  IN  IF \/ a[target].role # "tab"
         \/ keyCode \notin RecognizedKeys
      THEN [attr |-> a, focus |-> f, result |-> "ignored",
            prevented |-> TRUE, newTab |-> Undefined]
      ELSE [attr |-> sel.attr, focus |-> sel.focus,
            result |-> IF sel.ok THEN "ok" ELSE "error",
            prevented |-> TRUE, newTab |-> newTab]

\* The result of a handler: the attributes and focus it leaves, how it ended
\* (ok: a selection was applied, error: it threw, ignored: it returned
\* early), whether it called event.preventDefault, and the tab it chose.
_onKeyDown(k, a, f, target, keyCode, altKey) ==
  LET tabs == _allTabs(k, a)
      newTab == CASE keyCode \in {KEYCODE_LEFT, KEYCODE_UP} -> _prevTab(k, a)
                  [] keyCode \in {KEYCODE_RIGHT, KEYCODE_DOWN} -> _nextTab(k, a)
                  [] keyCode = KEYCODE_HOME -> At(tabs, 0)
                  [] keyCode = KEYCODE_END -> At(tabs, Len(tabs) - 1)
                  [] OTHER -> Undefined
      sel == _selectTab(k, a, f, newTab)
  IN  IF \/ a[target].role # "tab"
         \/ altKey
         \/ keyCode \notin RecognizedKeys
      THEN [attr |-> a, focus |-> f, result |-> "ignored",
            prevented |-> TRUE, newTab |-> Undefined]
      ELSE [attr |-> sel.attr, focus |-> sel.focus,
            result |-> IF sel.ok THEN "ok" ELSE "error",
            prevented |-> TRUE, newTab |-> newTab]

\* _onClick selecting event.currentTarget (the host) instead of event.target.
_onClick_currentTarget(k, a, f, target) ==
  LET sel == _selectTab(k, a, f, Host)
  IN  IF a[target].role = Absent
      THEN [attr |-> a, focus |-> f, result |-> "ignored",
            prevented |-> FALSE, newTab |-> Undefined]
      ELSE [attr |-> sel.attr, focus |-> sel.focus,
            result |-> IF sel.ok THEN "ok" ELSE "error",
            prevented |-> FALSE, newTab |-> Host]

\* getAttribute('role', 'tab') ignores its second argument: the test is
\* whether the target has a (non-empty) role at all.
_onClick(k, a, f, target) ==
  LET sel == _selectTab(k, a, f, target)
  IN  IF a[target].role = Absent
      THEN [attr |-> a, focus |-> f, result |-> "ignored",
            prevented |-> FALSE, newTab |-> Undefined]
      ELSE [attr |-> sel.attr, focus |-> sel.focus,
            result |-> IF sel.ok THEN "ok" ELSE "error",
            prevented |-> FALSE, newTab |-> target]

----------------------------------------------------------------------------
\* The host markup before the element is attached.

\* Child lists: tabs and panels interleaved (the progressive-enhancement
\* markup), already grouped, interleaved inside a wrapper <div>, or each
\* tab nested inside its panel.
Interleaved ==
  [j \in 1..(2 * NTabs) |->
     IF j % 2 = 1 THEN Tab((j + 1) \div 2) ELSE Panel(j \div 2)]

Grouped ==
  [j \in 1..(2 * NTabs) |-> IF j <= NTabs THEN Tab(j) ELSE Panel(j - NTabs)]

Layouts == {"interleaved", "grouped", "wrapped"}

PanelsOnly == [j \in 1..NTabs |-> Panel(j)]

InitKids(layout) ==
  [n \in Nodes |->
     CASE n = Host ->
            IF layout = "interleaved" THEN Append(Interleaved, Wrap)
            ELSE IF layout = "grouped" THEN <<Wrap>> \o Grouped
            ELSE IF layout = "nested" THEN Append(PanelsOnly, Wrap)
            ELSE <<Wrap>>
       [] n = Wrap -> IF layout = "wrapped" THEN Interleaved ELSE <<>>
       [] n \in PanelNodes ->
            (IF layout = "nested" THEN <<Tab(n[2])>> ELSE <<>>)
              \o (IF n = Panel(1) THEN <<Extra>> ELSE <<>>)
       [] OTHER -> <<>>]

\* At most one tab of the markup is defective: it has no id, or its
\* aria-controls names no panel.
NoDefect == [kind |-> "none", tab |-> 0]

Defects ==
  {[kind |-> d, tab |-> i] : d \in {"noid", "nopanel"}, i \in {2, NTabs}}

\* A markup without any tab: the would-be tab elements carry no role.
NoTabs == [kind |-> "notabs", tab |-> 0]

\* The tabs the markup marks with aria-selected="true": none, one, several.
Marks == {{}, {2}, 2..NTabs, TabIdx}

\* The extra element: plain content, or an element carrying another role,
\* possibly with an aria-controls of its own.
ExtraKinds == {"plain", "role", "rolecontrols"}

BlankAttr ==
  [role |-> Absent, id |-> EmptyStr, controls |-> Null, selected |-> Absent,
   tabIndex |-> -1, hidden |-> Absent, labelledby |-> Null]

InitAttr(marked, defect, extra) ==
  [n \in Nodes |->
     IF n \in TabNodes
     THEN LET i == n[2]
          IN  [BlankAttr EXCEPT
                 !.role = IF defect = NoTabs THEN Absent ELSE "tab",
                 !.id = IF defect = [kind |-> "noid", tab |-> i]
                        THEN EmptyStr ELSE TabId(i),
                 !.controls = IF defect = [kind |-> "nopanel", tab |-> i]
                              THEN MissingId ELSE PanelId(i),
                 !.selected = IF i \in marked THEN "true" ELSE Absent]
     ELSE IF n \in PanelNodes
     THEN [BlankAttr EXCEPT !.role = "tabpanel", !.id = PanelId(n[2])]
     ELSE IF n = Extra
     THEN [BlankAttr EXCEPT
             !.role = IF extra = "plain" THEN Absent ELSE "button",
             !.controls = IF extra = "rolecontrols" THEN PanelId(1) ELSE Null]
     ELSE BlankAttr]

NoOp ==
  [op |-> "none", target |-> Host, keyCode |-> 0, altKey |-> FALSE,
   result |-> "none", prevented |-> FALSE, newTab |-> Undefined,
   before |-> {}, order |-> <<>>]

\* The documents the element is started on.
Markups ==
  {[layout |-> l, marked |-> m, defect |-> NoDefect, extra |-> "plain"] :
     l \in Layouts, m \in Marks}
    \cup
  {[layout |-> "interleaved", marked |-> m, defect |-> NoDefect, extra |-> e] :
     m \in {{}, 2..NTabs}, e \in ExtraKinds}
    \cup
  {[layout |-> "interleaved", marked |-> m, defect |-> d, extra |-> "plain"] :
     m \in {{}, TabIdx}, d \in Defects}
    \cup
  {[layout |-> "interleaved", marked |-> {}, defect |-> NoTabs,
    extra |-> "plain"]}
    \cup
  {[layout |-> "nested", marked |-> m, defect |-> NoDefect,
    extra |-> "plain"] : m \in {{}, {2}}}

Init ==
  /\ \E m \in Markups :
       /\ kids = InitKids(m.layout)
       /\ attr = InitAttr(m.marked, m.defect, m.extra)
  /\ listeners = {}
  /\ connected = FALSE
  /\ focus = NoFocus
  /\ setup = "none"
  /\ lastOp = NoOp

----------------------------------------------------------------------------
\* The tabs of the host whose aria-selected is "true".
SelectedTabs(k, a) == {t \in Range(_allTabs(k, a)) : IsSelected(a, t)}

\* The panels of the host whose aria-hidden is "false".
VisiblePanels(k, a) == {p \in Range(_allPanels(k, a)) : a[p].hidden = "false"}

\* The tabs and panels of the host, in document order.
TabsAndPanels(k, a) ==
  SelectSeq(DocOrder(k, k[Host]),
            LAMBDA e : a[e].role \in {"tab", "tabpanel"})

\* The document attaches the host: connectedCallback runs.
Attach ==
  /\ ~connected
  /\ \E r \in {connectedCallback(kids, attr, focus)} :
         /\ kids' = r.kids
         /\ attr' = r.attr
         /\ focus' = r.focus
         /\ setup' = r.result
         /\ lastOp' = [NoOp EXCEPT !.op = "attach", !.result = r.result,
                                   !.newTab = r.newTab,
                                   !.before = SelectedTabs(kids, attr),
                                   !.order = TabsAndPanels(kids, attr)]
  /\ listeners' = listeners \cup {"keydown", "click"}
  /\ connected' = TRUE

\* disconnectedCallback without the removal of the click listener.
Detach_keepsClick ==
  /\ connected
  /\ listeners' = listeners \ {"keydown"}
  /\ connected' = FALSE
  /\ focus' = NoFocus
  /\ setup' = "none"
  /\ lastOp' = [NoOp EXCEPT !.op = "detach", !.result = "ok",
                            !.before = SelectedTabs(kids, attr)]
  /\ UNCHANGED <<kids, attr>>

\* The document detaches the host: disconnectedCallback runs.  An element
\* removed from the document loses the focus.
Detach ==
  /\ connected
  /\ listeners' = listeners \ {"keydown", "click"}
  /\ connected' = FALSE
  /\ focus' = NoFocus
  /\ setup' = "none"
  /\ lastOp' = [NoOp EXCEPT !.op = "detach", !.result = "ok",
                            !.before = SelectedTabs(kids, attr)]
  /\ UNCHANGED <<kids, attr>>

\* A keydown event is dispatched at target and reaches the host.
KeyDown(target, keyCode, altKey) ==
  /\ \E r \in {IF "keydown" \in listeners
                 THEN _onKeyDown(kids, attr, focus, target, keyCode, altKey)
                 ELSE [attr |-> attr, focus |-> focus, result |-> "nolistener",
                       prevented |-> FALSE, newTab |-> Undefined]} :
         /\ attr' = r.attr
         /\ focus' = r.focus
         /\ lastOp' = [op |-> "keydown", target |-> target,
                       keyCode |-> keyCode, altKey |-> altKey,
                       result |-> r.result, prevented |-> r.prevented,
                       newTab |-> r.newTab,
                       before |-> SelectedTabs(kids, attr),
                       order |-> <<>>]
  /\ UNCHANGED <<kids, listeners, connected, setup>>

\* A click event is dispatched at target and reaches the host.
Click(target) ==
  /\ \E r \in {IF "click" \in listeners
                 THEN _onClick(kids, attr, focus, target)
                 ELSE [attr |-> attr, focus |-> focus, result |-> "nolistener",
                       prevented |-> FALSE, newTab |-> Undefined]} :
         /\ attr' = r.attr
         /\ focus' = r.focus
         /\ lastOp' = [op |-> "click", target |-> target,
                       keyCode |-> 0, altKey |-> FALSE,
                       result |-> r.result, prevented |-> r.prevented,
                       newTab |-> r.newTab,
                       before |-> SelectedTabs(kids, attr),
                       order |-> <<>>]
  /\ UNCHANGED <<kids, listeners, connected, setup>>

\* The elements keydown events are dispatched at: the host, the first and
\* the last tab, a panel and the content inside it.
KeyTargets == {Host, Tab(1), Tab(NTabs), Panel(1), Extra}

Next ==
  \/ Attach
  \/ Detach
  \/ \E target \in KeyTargets, keyCode \in KeyCodes, altKey \in BOOLEAN :
       KeyDown(target, keyCode, altKey)
  \/ \E target \in Nodes : Click(target)

Spec == Init /\ [][Next]_vars

TypeOK ==
  /\ connected \in BOOLEAN
  /\ listeners \subseteq {"keydown", "click"}
  /\ focus \in Nodes \cup {NoFocus}
  /\ setup \in {"none", "ok", "error", "inert"}
  /\ \A n \in Nodes : attr[n].tabIndex \in {-1, 0}

----------------------------------------------------------------------------
\* Shorthands for the current state.

Tabs == _allTabs(kids, attr)
Sel == SelectedTabs(kids, attr)
Vis == VisiblePanels(kids, attr)

\* The callback that ran last applied a selection to a tab and returned.
CompletedTransition ==
  /\ lastOp.op \in {"attach", "keydown", "click"}
  /\ lastOp.result = "ok"
  /\ lastOp.newTab \in Range(Tabs)

\* The attributes the selection writes are the same on every tab and panel.
SameSelectionAttrs(a, b) ==
  \A n \in Nodes :
    /\ a[n].role = "tab" =>
         a[n].selected = b[n].selected /\ a[n].tabIndex = b[n].tabIndex
    /\ a[n].role = "tabpanel" => a[n].hidden = b[n].hidden

\* C1: after any completed transition (the initial selection at attach, or a
\* key or click selection that returns without error) exactly one tab has
\* aria-selected = "true", whatever was marked before.
C1_ExactlyOneSelected ==
  CompletedTransition => Cardinality(Sel) = 1

\* C1 witness: a transition completed from a state with several tabs marked.
C1_Witness ==
  /\ CompletedTransition
  /\ Cardinality(lastOp.before) >= 2
  /\ Cardinality(Sel) = 1

\* C2: after any completed transition the panel whose id is the selected
\* tab's aria-controls has aria-hidden = "false" and every other panel has
\* aria-hidden = "true".
C2_PairedPanelVisible ==
  CompletedTransition =>
    /\ Cardinality(Vis) = 1
    /\ \A p \in Range(_allPanels(kids, attr)) :
         attr[p].hidden =
           IF attr[p].id = attr[lastOp.newTab].controls THEN "false" ELSE "true"

\* C2 witness: a key press moved the selection to the second tab, whose
\* panel is now the visible one.
C2_Witness ==
  /\ CompletedTransition
  /\ lastOp.op = "keydown"
  /\ Sel = {Tab(2)}
  /\ Vis = {Panel(2)}
  /\ attr[Panel(1)].hidden = "true"

\* C3: once connectedCallback has completed on a host with at least one tab,
\* every state between events has some tab with aria-selected = "true".
C3_AlwaysSomeSelected ==
  (setup = "ok" /\ Len(Tabs) >= 1) => Sel # {}

\* C4: selecting (by click) a tab whose aria-controls names no panel raises
\* an error and leaves aria-selected, tabIndex and aria-hidden of every tab
\* and panel as they were.
C4_AtomicFailure ==
  [][(/\ lastOp'.op = "click"
      /\ "click" \in listeners
      /\ attr[lastOp'.target].role = "tab"
      /\ _panelForTab(kids, attr, lastOp'.target) = Undefined)
     => (lastOp'.result = "error" /\ SameSelectionAttrs(attr, attr'))]_vars

\* The 1-based position of tab t in the current tab sequence.
IndexOf(t) == CHOOSE i \in 1..Len(Tabs) : Tabs[i] = t

\* The positions before and after position i, wrapping around.
PrevIndex(i) == IF i = 1 THEN Len(Tabs) ELSE i - 1
NextIndex(i) == IF i = Len(Tabs) THEN 1 ELSE i + 1

\* A keydown that the handler turned into a transition.
KeyTransition(codes) ==
  /\ lastOp.op = "keydown"
  /\ lastOp.keyCode \in codes
  /\ lastOp.result \in {"ok", "error"}

\* C5: with exactly the tab at index i selected, selectPrevious (left
\* arrow) targets the tab at (i - 1) mod n and selectNext (right arrow) the
\* tab at (i + 1) mod n, and that tab is the selected one when the
\* transition completes.
C5_WrapAround ==
  \A t \in Range(Tabs) :
    lastOp.before = {t} =>
      /\ KeyTransition({KEYCODE_LEFT}) =>
           /\ lastOp.newTab = Tabs[PrevIndex(IndexOf(t))]
           /\ lastOp.result = "ok" => Sel = {Tabs[PrevIndex(IndexOf(t))]}
      /\ KeyTransition({KEYCODE_RIGHT}) =>
           /\ lastOp.newTab = Tabs[NextIndex(IndexOf(t))]
           /\ lastOp.result = "ok" => Sel = {Tabs[NextIndex(IndexOf(t))]}

\* C5 witness: selectPrevious on the first tab selected the last tab.
C5_Witness ==
  /\ KeyTransition({KEYCODE_LEFT})
  /\ lastOp.result = "ok"
  /\ Len(Tabs) = NTabs
  /\ lastOp.before = {Tabs[1]}
  /\ Sel = {Tabs[NTabs]}

\* C6: a keydown on a tab without alt is mapped by its key: left/up to the
\* previous tab, right/down to the next tab, Home to the tab at index 0 and
\* End to the tab at index count - 1 (whichever tab is selected); the
\* mapped tab is the selected one when the transition completes.
C6_KeyMapping ==
  (/\ lastOp.op = "keydown"
   /\ lastOp.result # "nolistener"
   /\ attr[lastOp.target].role = "tab"
   /\ ~lastOp.altKey
   /\ lastOp.keyCode \in RecognizedKeys)
  =>
   /\ lastOp.result \in {"ok", "error"}
   /\ lastOp.result = "ok" => Sel = {lastOp.newTab}
   /\ lastOp.keyCode = KEYCODE_HOME => lastOp.newTab = Tabs[1]
   /\ lastOp.keyCode = KEYCODE_END => lastOp.newTab = Tabs[Len(Tabs)]
   /\ \A t \in Range(Tabs) :
        lastOp.before = {t} =>
          /\ lastOp.keyCode \in {KEYCODE_LEFT, KEYCODE_UP} =>
               lastOp.newTab = Tabs[PrevIndex(IndexOf(t))]
          /\ lastOp.keyCode \in {KEYCODE_RIGHT, KEYCODE_DOWN} =>
               lastOp.newTab = Tabs[NextIndex(IndexOf(t))]

\* C6 witness: Home pressed while the last tab was selected selected the
\* first tab.
C6_Witness ==
  /\ KeyTransition({KEYCODE_HOME})
  /\ lastOp.result = "ok"
  /\ lastOp.before = {Tabs[NTabs]}
  /\ Sel = {Tabs[1]}

\* C7: a click on a tab X whose panel exists leaves, in that one step, X the
\* only selected tab and X's panel the only visible panel, whatever was
\* selected before.
C7_ClickSelects ==
  [][(/\ lastOp'.op = "click"
      /\ "click" \in listeners
      /\ attr[lastOp'.target].role = "tab"
      /\ _panelForTab(kids, attr, lastOp'.target) # Undefined)
     => (/\ lastOp'.result = "ok"
         /\ SelectedTabs(kids', attr') = {lastOp'.target}
         /\ VisiblePanels(kids', attr') =
              {_panelForTab(kids, attr, lastOp'.target)})]_vars

\* C7 witness: with the first tab selected, a click on the last tab selected
\* it.
C7_Witness ==
  /\ lastOp.op = "click"
  /\ lastOp.result = "ok"
  /\ lastOp.before = {Tab(1)}
  /\ lastOp.target = Tab(NTabs)
  /\ Sel = {Tab(NTabs)}
  /\ Vis = {Panel(NTabs)}

\* C8: a click whose target is not a tab raises no error and leaves
\* aria-selected, tabIndex and aria-hidden of every tab and panel unchanged.
C8_NonTabClickIgnored ==
  [][(lastOp'.op = "click" /\ attr[lastOp'.target].role # "tab")
     => (lastOp'.result # "error" /\ SameSelectionAttrs(attr, attr'))]_vars

\* A keydown the handler must not act on.
Ineligible(target, keyCode, altKey) ==
  \/ attr[target].role # "tab"
  \/ altKey
  \/ keyCode \notin RecognizedKeys

\* C9: a keydown that is not eligible (target not a tab, alt held, or a key
\* other than the six) performs no transition: aria-selected, tabIndex,
\* aria-hidden and the focused element are unchanged.
C9_IneligibleKeyNoTransition ==
  [][(/\ lastOp'.op = "keydown"
      /\ Ineligible(lastOp'.target, lastOp'.keyCode, lastOp'.altKey))
     => (/\ lastOp'.result \in {"ignored", "nolistener"}
         /\ SameSelectionAttrs(attr, attr')
         /\ focus' = focus)]_vars

\* C9 witness: a left arrow with alt held, on a tab of an attached host with
\* a selection, was ignored.
C9_Witness ==
  /\ lastOp.op = "keydown"
  /\ lastOp.result = "ignored"
  /\ lastOp.altKey
  /\ lastOp.keyCode = KEYCODE_LEFT
  /\ attr[lastOp.target].role = "tab"
  /\ setup = "ok"
  /\ Cardinality(Sel) = 1

\* C10: for a keydown whose key is none of the six recognized keys the
\* handler does not suppress the event's default handling.
C10_OtherKeyNotPrevented ==
  (lastOp.op = "keydown" /\ lastOp.keyCode \notin RecognizedKeys)
    => ~lastOp.prevented

----------------------------------------------------------------------------
\* Attach.

\* The tab the initial selection is specified to pick: the first tab in
\* document order that was marked before attach, or the first tab overall.
InitialTab ==
  LET marked == SelectSeq(Tabs, LAMBDA t : t \in lastOp.before)
  IN  IF marked # <<>> THEN marked[1] ELSE Tabs[1]

\* C11: attach on a host with at least one tab selects the first tab in
\* document order already marked aria-selected = "true", or the first tab if
\* none is marked; that tab's panel is then the visible one.
C11_InitialSelection ==
  (lastOp.op = "attach" /\ Len(Tabs) >= 1) =>
    /\ Sel = {InitialTab}
    /\ Vis = {_panelForTab(kids, attr, InitialTab)}

\* Every tab with an id has its id as the aria-labelledby of its panel.
Labelled(k, a) ==
  \A t \in Range(_allTabs(k, a)) :
    (a[t].id # EmptyStr /\ _panelForTab(k, a, t) # Undefined) =>
      a[_panelForTab(k, a, t)].labelledby = a[t].id

\* C12: a tab without id at attach is not fatal: the other tabs are labelled
\* and the initial selection is still applied.
C12_MissingIdNonFatal ==
  (/\ lastOp.op = "attach"
   /\ \E t \in Range(Tabs) : attr[t].id = EmptyStr
   /\ \A t \in Range(Tabs) : _panelForTab(kids, attr, t) # Undefined)
  =>
   /\ lastOp.result = "ok"
   /\ Labelled(kids, attr)
   /\ Sel = {InitialTab}

\* C13: attach of a host with zero tabs leaves it inert: no selection, no
\* listener, and no later key or click changes a panel's aria-hidden or
\* raises an error.
C13_ZeroTabsInert ==
  [][(setup = "inert" /\ lastOp'.op \in {"keydown", "click"}) =>
       /\ lastOp'.result # "error"
       /\ SelectedTabs(kids', attr') = {}
       /\ SameSelectionAttrs(attr, attr')]_vars

\* C14: after any completed transition a tab has tabIndex 0 if and only if
\* it has aria-selected = "true"; every other tab has tabIndex -1.
C14_TabOrderFollowsSelection ==
  CompletedTransition =>
    \A t \in Range(Tabs) :
      attr[t].tabIndex = IF IsSelected(attr, t) THEN 0 ELSE -1

\* C14 witness: the selection moved from the first tab to the second; the
\* first is out of the tab order and the second is in it.
C14_Witness ==
  /\ CompletedTransition
  /\ lastOp.op \in {"keydown", "click"}
  /\ setup = "ok"
  /\ lastOp.before = {Tab(1)}
  /\ Sel = {Tab(2)}
  /\ attr[Tab(1)].tabIndex = -1
  /\ attr[Tab(2)].tabIndex = 0

\* C15: detach unregisters both handlers and leaves the tree and every
\* attribute unchanged; while detached no key or click event causes a
\* transition.
C15_DetachOnlyUnregisters ==
  [][/\ lastOp'.op = "detach" =>
          (listeners' = {} /\ attr' = attr /\ kids' = kids)
     /\ (~connected /\ lastOp'.op \in {"keydown", "click"}) =>
          (/\ lastOp'.result = "nolistener"
           /\ attr' = attr
           /\ kids' = kids
           /\ focus' = focus)]_vars

\* C15 witness: a click on a tab of a host that was attached (with a
\* selection) and then detached was not handled.
C15_Witness ==
  /\ ~connected
  /\ lastOp.op = "click"
  /\ lastOp.result = "nolistener"
  /\ attr[lastOp.target].role = "tab"
  /\ lastOp.target \notin Sel
  /\ Cardinality(Sel) = 1
  /\ attr[Host].role = "tablist"

\* C16: after attach on a host with at least one tab, the host's children
\* hold every tab before every panel, tabs and panels each in the document
\* order they had before attach, each exactly once and nowhere else in the
\* subtree.
C16_TabsBeforePanels ==
  (/\ lastOp.op = "attach"
   /\ \E i \in 1..Len(lastOp.order) : attr[lastOp.order[i]].role = "tab")
  =>
   /\ SelectSeq(kids[Host], LAMBDA e : attr[e].role \in {"tab", "tabpanel"})
        = SelectSeq(lastOp.order, LAMBDA e : attr[e].role = "tab")
            \o SelectSeq(lastOp.order, LAMBDA e : attr[e].role = "tabpanel")
   /\ \A n \in Elems :
        \A i \in 1..Len(kids[n]) :
          attr[kids[n][i]].role \notin {"tab", "tabpanel"}

\* C16 witness: an attach moved the tabs, which the markup had nested inside
\* their panels (each panel before its tab), in front of the panels.
C16_Witness ==
  /\ lastOp.op = "attach"
  /\ Len(lastOp.order) = 2 * NTabs
  /\ lastOp.order[1] = Panel(1)
  /\ lastOp.order[2] = Tab(1)
  /\ kids[Panel(1)] = <<Extra>>
  /\ kids[Host][1] = Wrap
  /\ kids[Host][2] = Tab(1)
  /\ kids[Host][NTabs + 2] = Panel(1)

\* C17: in every state after a completed attach (so also after every later
\* key or click event) the panel governed by each tab that has an id has
\* that id as its aria-labelledby, and a panel has no other label.
C17_PanelsLabelled ==
  setup = "ok" =>
    /\ Labelled(kids, attr)
    /\ \A p \in Range(_allPanels(kids, attr)) :
         attr[p].labelledby # Null =>
           \E t \in Range(Tabs) :
             attr[t].controls = attr[p].id /\ attr[t].id = attr[p].labelledby

\* C17 witness: after a completed attach and a completed key transition the
\* panels of the first and the last tab carry those tabs' ids.
C17_Witness ==
  /\ setup = "ok"
  /\ lastOp.op = "keydown"
  /\ lastOp.result = "ok"
  /\ attr[Panel(1)].labelledby = TabId(1)
  /\ attr[Panel(NTabs)].labelledby = TabId(NTabs)
  /\ attr[Tab(1)].id = TabId(1)

\* C18: a tab whose aria-controls names no panel is an error only when that
\* tab is selected: attach of a host holding such a tab, with another tab as
\* the initial one, completes with the initial tab selected and its panel
\* visible.
C18_MissingPanelOnlyOnSelect ==
  (/\ lastOp.op = "attach"
   /\ Len(Tabs) >= 1
   /\ \E t \in Range(Tabs) : _panelForTab(kids, attr, t) = Undefined
   /\ _panelForTab(kids, attr, InitialTab) # Undefined
   /\ \A t \in Range(Tabs) : attr[t].id # EmptyStr)
  =>
   /\ lastOp.result = "ok"
   /\ Sel = {InitialTab}
   /\ Vis = {_panelForTab(kids, attr, InitialTab)}

\* C20: a re-attach right after a detach, with exactly one tab selected,
\* keeps that tab selected and the same panel visible, and leaves the two
\* handlers registered (once each: the listener list holds a handler at
\* most once per event type).
C20_ReattachKeepsSelection ==
  [][(/\ lastOp.op = "detach"
      /\ lastOp'.op = "attach"
      /\ Cardinality(Sel) = 1)
     => (/\ SelectedTabs(kids', attr') = Sel
         /\ VisiblePanels(kids', attr') = Vis
         /\ listeners' = {"keydown", "click"})]_vars

\* C20 witness: a host detached with its last tab selected was re-attached
\* and has the last tab selected and the last panel visible.
C20_Witness ==
  /\ lastOp.op = "attach"
  /\ lastOp.result = "ok"
  /\ lastOp.before = {Tab(NTabs)}
  /\ NTabs > 2
  /\ Sel = {Tab(NTabs)}
  /\ Vis = {Panel(NTabs)}
  /\ listeners = {"keydown", "click"}

----------------------------------------------------------------------------
\* External code changing the subtree between events.

\* The nodes external code removes and adds: the first tab, the last tab and
\* the last panel.
LiveNodes == {Tab(1), Tab(NTabs), Panel(NTabs)}

\* The nodes in the host's subtree.
InTree(k) == Range(DocOrder(k, k[Host]))

\* External code removes node n (with its subtree) from the host.
ExternalRemove(n) ==
  /\ connected
  /\ n \in InTree(kids)
  /\ kids' = [m \in Nodes |-> SelectSeq(kids[m], LAMBDA x : x # n)]
  /\ focus' = IF focus = n THEN NoFocus ELSE focus
  /\ lastOp' = [NoOp EXCEPT !.op = "remove", !.target = n, !.result = "ok",
                            !.before = SelectedTabs(kids, attr)]
  /\ UNCHANGED <<attr, listeners, connected, setup>>

\* External code appends node n to the host; a tab may come already marked
\* aria-selected = "true".
ExternalAdd(n, marked) ==
  /\ connected
  /\ n \notin InTree(kids)
  /\ marked => attr[n].role = "tab"
  /\ kids' = [kids EXCEPT ![Host] = Append(@, n)]
  /\ attr' = IF marked THEN [attr EXCEPT ![n].selected = "true"] ELSE attr
  /\ lastOp' = [NoOp EXCEPT !.op = "add", !.target = n, !.result = "ok",
                            !.before = SelectedTabs(kids, attr)]
  /\ UNCHANGED <<listeners, connected, focus, setup>>

\* The host starts on the grouped markup without defect; between the events
\* external code removes and adds nodes.
InitLive ==
  /\ kids = InitKids("grouped")
  /\ attr = InitAttr({}, NoDefect, "plain")
  /\ listeners = {}
  /\ connected = FALSE
  /\ focus = NoFocus
  /\ setup = "none"
  /\ lastOp = NoOp

LiveKeys == {KEYCODE_LEFT, KEYCODE_RIGHT, KEYCODE_HOME, KEYCODE_END}

NextLive ==
  \/ Attach
  \/ \E target \in InTree(kids) \cap TabNodes, keyCode \in LiveKeys :
       KeyDown(target, keyCode, FALSE)
  \/ \E target \in InTree(kids) \cap TabNodes : Click(target)
  \/ \E n \in LiveNodes : ExternalRemove(n)
  \/ \E n \in LiveNodes, marked \in BOOLEAN : ExternalAdd(n, marked)

SpecLive == InitLive /\ [][NextLive]_vars

\* The tabs and panels in the host's subtree now, read from the tree.
LiveTabs == querySelectorAll(kids, attr, "tab")
LivePanels == querySelectorAll(kids, attr, "tabpanel")

\* C19: transitions read the live tab and panel sequences: after external
\* code removed or added tabs and panels (also a tab already marked
\* selected), a completed transition took its target from the current
\* sequence (End the current last tab, Home the current first) and leaves
\* exactly one tab selected and exactly one panel visible.
C19_LiveDiscovery ==
  (/\ lastOp.op \in {"keydown", "click"}
   /\ lastOp.result = "ok"
   /\ attr[lastOp.newTab].role = "tab")
  =>
   /\ {t \in Range(LiveTabs) : IsSelected(attr, t)} = {lastOp.newTab}
   /\ Cardinality({p \in Range(LivePanels) : attr[p].hidden = "false"}) = 1
   /\ lastOp.keyCode = KEYCODE_END => lastOp.newTab = LiveTabs[Len(LiveTabs)]
   /\ lastOp.keyCode = KEYCODE_HOME => lastOp.newTab = LiveTabs[1]

\* C19 witness: the first tab was removed and added again, marked selected,
\* behind the other tabs; End then selected it as the current last tab and
\* it is the only selected one.
C19_Witness ==
  /\ lastOp.op = "keydown"
  /\ lastOp.keyCode = KEYCODE_END
  /\ lastOp.result = "ok"
  /\ Cardinality(lastOp.before) >= 2
  /\ lastOp.newTab = Tab(1)
  /\ Len(LiveTabs) >= 2
  /\ {t \in Range(LiveTabs) : IsSelected(attr, t)} = {Tab(1)}

====
